---- MODULE Spec2Model ----
(***************************************************************************)
(* A model of qams_core (src/src/lib.rs): the scorecard data model         *)
(* (CriterionOptionScore, CriterionOption, Criterion, Review), the score   *)
(* aggregation (max_points, total_points, percent_score_string) and the    *)
(* CSV import and export (from_csv, to_csv).                               *)
(*                                                                         *)
(* Strings are sequences of one-character strings, so that trim, split,    *)
(* join, to_uppercase and parse are computed character by character.       *)
(* i32 values keep their 32-bit range: an addition that leaves the range   *)
(* panics when the crate is built with overflow checks (the dev and test   *)
(* profiles) and wraps otherwise (the release profile).                    *)
(***************************************************************************)
EXTENDS Integers, Sequences, FiniteSets, TLC

VARIABLES criteria, aborted, overflow_checks, pc, csv, imported, grid

vars == <<criteria, aborted, overflow_checks, pc, csv, imported, grid>>

(***************************************************************************)
(* Bounds of the model.                                                    *)
(***************************************************************************)
MaxCriteria == 3
MaxIndex == 3
MaxRows == 3
MaxCols == 3

(***************************************************************************)
(* Option<T>: None is the empty sequence, Some(x) the one-element one.     *)
(***************************************************************************)
None == <<>>
Some(x) == <<x>>

(***************************************************************************)
(* i32                                                                     *)
(***************************************************************************)
I32Max == 2147483647
I32Min == (-I32Max) - 1

\* a + b on i32: whether it leaves the range, and the two's complement value
AddI32(a, b) ==
    IF a > 0 /\ b > 0 /\ a > I32Max - b
    THEN [overflow |-> TRUE, value |-> (a - I32Max - 1) + (b - I32Max - 1)]
    ELSE IF a < 0 /\ b < 0 /\ a < I32Min - b
    THEN [overflow |-> TRUE, value |-> (a + I32Max + 1) + (b + I32Max + 1)]
    ELSE [overflow |-> FALSE, value |-> a + b]

\* The outcome of a call that returns an i32: a value, or a panic.  wrapped
\* records whether an addition of the call left the i32 range on the way.
Returned(v, wrapped) == [panic |-> FALSE, value |-> v, wrapped |-> wrapped]
Panicked == [panic |-> TRUE, value |-> 0, wrapped |-> TRUE]

(***************************************************************************)
(* CriterionOptionScore, CriterionOption, Criterion                        *)
(***************************************************************************)
Points(n) == [tag |-> "Points", points |-> n]
Fatal == [tag |-> "Fatal", points |-> 0]

CriterionOptionNew(label, score) == [label |-> label, score |-> score]

CriterionNew(label, options) ==
    [label |-> label, options |-> options, selection_index |-> None, comment |-> <<>>]

\* Criterion::selection: the selected option, if the index resolves to one
Selection(c) ==
    IF c.selection_index = None THEN None
    ELSE IF c.selection_index[1] + 1 \in DOMAIN c.options
         THEN Some(c.options[c.selection_index[1] + 1])
         ELSE None

\* Criterion::selection_score
SelectionScore(c) ==
    IF Selection(c) = None THEN None ELSE Some(Selection(c)[1].score)

\* the loop with its comparison turned round
RECURSIVE MinPointsLoop(_, _, _)
MinPointsLoop(options, i, max_points) ==
    IF i > Len(options) THEN max_points
    ELSE IF options[i].score.tag = "Fatal" THEN MinPointsLoop(options, i + 1, max_points)
    ELSE IF options[i].score.points < max_points
         THEN MinPointsLoop(options, i + 1, options[i].score.points)
         ELSE MinPointsLoop(options, i + 1, max_points)

RECURSIVE MaxPointsLoop(_, _, _)
MaxPointsLoop(options, i, max_points) ==
    IF i > Len(options) THEN max_points
    ELSE IF options[i].score.tag = "Fatal" THEN MaxPointsLoop(options, i + 1, max_points)
    ELSE IF options[i].score.points > max_points
         THEN MaxPointsLoop(options, i + 1, options[i].score.points)
         ELSE MaxPointsLoop(options, i + 1, max_points)

\* max_points with the running maximum started at i32::MIN instead of 0
CriterionMaxPointsNoFloor(c) == MaxPointsLoop(c.options, 1, I32Min)

\* Criterion::max_points
CriterionMaxPoints(c) == MaxPointsLoop(c.options, 1, 0)

(***************************************************************************)
(* Review: max_points and total_points                                     *)
(***************************************************************************)
RECURSIVE SumLoop(_, _, _, _)
SumLoop(cs, i, acc, wrapped) ==
    IF i > Len(cs) THEN Returned(acc, wrapped)
    ELSE LET r == AddI32(acc, CriterionMaxPoints(cs[i]))
         IN  IF r.overflow /\ overflow_checks THEN Panicked
             ELSE SumLoop(cs, i + 1, r.value, wrapped \/ r.overflow)

\* Review::max_points
ReviewMaxPoints(cs) == SumLoop(cs, 1, 0, FALSE)

RECURSIVE TotalLoop(_, _, _, _)
TotalLoop(cs, i, total_points, wrapped) ==
    IF i > Len(cs) THEN Returned(total_points, wrapped)
    ELSE LET score == SelectionScore(cs[i])
         IN  IF score = None THEN TotalLoop(cs, i + 1, total_points, wrapped)
             ELSE IF score[1].tag = "Fatal" THEN Returned(0, wrapped)
             ELSE LET r == AddI32(total_points, score[1].points)
                  IN  IF r.overflow /\ overflow_checks THEN Panicked
                      ELSE TotalLoop(cs, i + 1, r.value, wrapped \/ r.overflow)

\* Review::total_points
TotalPoints(cs) == TotalLoop(cs, 1, 0, FALSE)

(***************************************************************************)
(* The reviews the scoring specification starts from                       *)
(***************************************************************************)
YES == <<"Y", "E", "S">>
PARTIALLY == <<"P", "A", "R", "T">>
NO == <<"N", "O">>

OptionCatalogue ==
    { <<>>,
      <<CriterionOptionNew(YES, Points(1)), CriterionOptionNew(PARTIALLY, Points(0)),
        CriterionOptionNew(NO, Fatal)>>,
      <<CriterionOptionNew(YES, Points(671091)), CriterionOptionNew(NO, Points(-1))>>,
      <<CriterionOptionNew(YES, Points(I32Max))>> }

CriterionLabel == <<"Q">>

Comments == { <<>>, <<"o", "k">> }

SeqsUpTo(S, n) == UNION { [1..k -> S] : k \in 0..n }

\* Review::new over Criterion::new
ReviewNew(cs) == cs

Init ==
    /\ criteria \in { ReviewNew(cs) :
                        cs \in SeqsUpTo({ CriterionNew(CriterionLabel, o) : o \in OptionCatalogue },
                                        MaxCriteria) }
    /\ aborted = FALSE
    /\ overflow_checks \in BOOLEAN
    /\ pc = "review"
    /\ csv = <<>>
    /\ imported = None
    /\ grid = <<>>

(***************************************************************************)
(* Criterion::set_selection_index, reached through Review::criteria_mut    *)
(***************************************************************************)
SetSelectionIndexUnchecked(k, selection_index) ==
    /\ pc = "review" /\ ~aborted
    /\ criteria' = [criteria EXCEPT ![k].selection_index = Some(selection_index)]
    /\ UNCHANGED <<aborted, overflow_checks, pc, csv, imported, grid>>

SetSelectionIndex(k, selection_index) ==
    /\ pc = "review" /\ ~aborted
    /\ IF selection_index < Len(criteria[k].options)
       THEN /\ criteria' = [criteria EXCEPT ![k].selection_index = Some(selection_index)]
            /\ aborted' = aborted
       ELSE /\ aborted' = TRUE
            /\ criteria' = criteria
    /\ UNCHANGED <<overflow_checks, pc, csv, imported, grid>>

\* set_comment that rebuilds the criterion and so drops its selection
SetCommentRebuilding(k, comment) ==
    /\ pc = "review" /\ ~aborted
    /\ criteria' = [criteria EXCEPT
                       ![k] = [CriterionNew(@.label, @.options) EXCEPT !.comment = comment]]
    /\ UNCHANGED <<aborted, overflow_checks, pc, csv, imported, grid>>

\* Criterion::set_comment
SetComment(k, comment) ==
    /\ pc = "review" /\ ~aborted
    /\ criteria' = [criteria EXCEPT ![k].comment = comment]
    /\ UNCHANGED <<aborted, overflow_checks, pc, csv, imported, grid>>

SetSelection == \E k \in 1..Len(criteria), i \in 0..MaxIndex : SetSelectionIndex(k, i)
SetCommentAny == \E k \in 1..Len(criteria), c \in Comments : SetComment(k, c)

Next == SetSelection \/ SetCommentAny

Spec == Init /\ [][Next]_vars

(***************************************************************************)
(* Strings: trim, split, join, to_uppercase, i32 parsing and formatting    *)
(***************************************************************************)
CSV_ROW_DELIMITER == "\n"
CSV_COL_DELIMITER == ","
FATAL_STR == <<"F", "A", "T", "A", "L">>
CRITERION_STR == <<"C", "r", "i", "t", "e", "r", "i", "o", "n">>
SELECTION_STR == <<"S", "e", "l", "e", "c", "t", "i", "o", "n">>
COMMENTS_STR == <<"C", "o", "m", "m", "e", "n", "t", "s">>
SCORE_STR == <<"P", "e", "r", "c", "e", "n", "t", " ", "S", "c", "o", "r", "e">>

\* the characters of the model's alphabet that str::trim removes
WhiteSpace == { " ", "\n", "\t", "\r" }

RECURSIVE TrimStart(_)
TrimStart(s) == IF s # <<>> /\ Head(s) \in WhiteSpace THEN TrimStart(Tail(s)) ELSE s

RECURSIVE TrimEnd(_)
TrimEnd(s) ==
    IF s # <<>> /\ s[Len(s)] \in WhiteSpace THEN TrimEnd(SubSeq(s, 1, Len(s) - 1)) ELSE s

\* str::trim
Trim(s) == TrimEnd(TrimStart(s))

RECURSIVE SplitLoop(_, _, _, _, _)
SplitLoop(s, d, i, cur, acc) ==
    IF i > Len(s) THEN Append(acc, cur)
    ELSE IF s[i] = d THEN SplitLoop(s, d, i + 1, <<>>, Append(acc, cur))
    ELSE SplitLoop(s, d, i + 1, Append(cur, s[i]), acc)

\* str::split(d).collect(): the pieces between the delimiters, at least one
Split(s, d) == SplitLoop(s, d, 1, <<>>, <<>>)

\* [T]::join(d)
RECURSIVE Join(_, _)
Join(parts, d) ==
    IF parts = <<>> THEN <<>>
    ELSE IF Len(parts) = 1 THEN parts[1]
    ELSE parts[1] \o <<d>> \o Join(Tail(parts), d)

LowerCase == <<"a", "b", "c", "d", "e", "f", "g", "h", "i", "j", "k", "l", "m",
               "n", "o", "p", "q", "r", "s", "t", "u", "v", "w", "x", "y", "z">>
UpperCase == <<"A", "B", "C", "D", "E", "F", "G", "H", "I", "J", "K", "L", "M",
               "N", "O", "P", "Q", "R", "S", "T", "U", "V", "W", "X", "Y", "Z">>

ToUpperChar(c) ==
    IF \E i \in DOMAIN LowerCase : LowerCase[i] = c
    THEN UpperCase[CHOOSE i \in DOMAIN LowerCase : LowerCase[i] = c]
    ELSE c

\* str::to_uppercase
ToUppercase(s) == [i \in DOMAIN s |-> ToUpperChar(s[i])]

Digits == <<"0", "1", "2", "3", "4", "5", "6", "7", "8", "9">>
IsDigit(c) == \E i \in DOMAIN Digits : Digits[i] = c
DigitValue(c) == (CHOOSE i \in DOMAIN Digits : Digits[i] = c) - 1
DigitChar(n) == Digits[n + 1]

\* the digits of str::parse::<i32>, accumulated with checked arithmetic
RECURSIVE ParseDigits(_, _, _, _)
ParseDigits(s, i, acc, negative) ==
    IF i > Len(s) THEN Some(acc)
    ELSE IF ~IsDigit(s[i]) THEN None
    ELSE IF negative
    THEN IF acc < -(I32Max \div 10) \/ acc * 10 < I32Min + DigitValue(s[i]) THEN None
         ELSE ParseDigits(s, i + 1, acc * 10 - DigitValue(s[i]), negative)
    ELSE IF acc > I32Max \div 10 \/ acc * 10 > I32Max - DigitValue(s[i]) THEN None
         ELSE ParseDigits(s, i + 1, acc * 10 + DigitValue(s[i]), negative)

\* str::parse::<i32>: an optional sign, then at least one digit, within i32
ParseI32(s) ==
    IF s = <<>> THEN None
    ELSE IF s[1] \in { "+", "-" }
    THEN IF Len(s) = 1 THEN None ELSE ParseDigits(s, 2, 0, s[1] = "-")
    ELSE ParseDigits(s, 1, 0, FALSE)

\* CriterionOptionScore::from_str
FromStr(s) ==
    IF ToUppercase(s) = FATAL_STR THEN Some(Fatal)
    ELSE IF ParseI32(s) = None THEN None
    ELSE Some(Points(ParseI32(s)[1]))

(***************************************************************************)
(* f32: a finite value is (-1)^neg * m * 2^e with 2^23 <= m < 2^24, or     *)
(* m = 0 for a zero; NaN and the infinities are kinds of their own.        *)
(* Every operation rounds to nearest, ties to even, as IEEE 754 does.      *)
(***************************************************************************)
F32Num(neg, m, e) == [kind |-> "num", neg |-> neg, m |-> m, e |-> e]
F32Zero(neg) == F32Num(neg, 0, 0)
F32NaN == [kind |-> "nan", neg |-> FALSE, m |-> 0, e |-> 0]
F32Inf(neg) == [kind |-> "inf", neg |-> neg, m |-> 0, e |-> 0]

Abs(n) == IF n < 0 THEN -n ELSE n

\* n / d for n >= 0, d > 0, rounded to the nearest integer, ties to even
DivRoundEven(n, d) ==
    LET q == n \div d
        r == n % d
    IN  IF r > d - r \/ (r = d - r /\ q % 2 = 1) THEN q + 1 ELSE q

RECURSIVE ShiftUp(_, _, _)
ShiftUp(neg, a, e) == IF a < 2^23 THEN ShiftUp(neg, 2 * a, e - 1) ELSE F32Num(neg, a, e)

\* the f32 nearest to a * 2^e, for 0 < a < 2^31
RoundF32(neg, a, e) ==
    IF a < 2^24 THEN ShiftUp(neg, a, e)
    ELSE LET k == CHOOSE j \in 1..7 : a \div 2^j < 2^24 /\ a \div 2^(j - 1) >= 2^24
             m == DivRoundEven(a, 2^k)
         IN  IF m = 2^24 THEN F32Num(neg, 2^23, e + k + 1) ELSE F32Num(neg, m, e + k)

\* n as f32
I32ToF32(n) ==
    IF n = 0 THEN F32Zero(FALSE)
    ELSE IF n = I32Min THEN F32Num(TRUE, 2^23, 8)
    ELSE RoundF32(n < 0, Abs(n), 0)

\* 100 as f32 * x: 100 is 25 * 2^2, so the exact product is 25 * m * 2^(e + 2)
Mul100F32(x) == IF x.m = 0 THEN x ELSE RoundF32(x.neg, 25 * x.m, x.e + 2)

\* s more binary digits of the quotient by d, from the remainder r
RECURSIVE LongDiv(_, _, _, _)
LongDiv(q, r, d, s) ==
    IF s = 0 THEN [q |-> q, r |-> r]
    ELSE IF 2 * r >= d THEN LongDiv(2 * q + 1, 2 * r - d, d, s - 1)
    ELSE LongDiv(2 * q, 2 * r, d, s - 1)

\* a / b on values of I32ToF32 and Mul100F32
DivF32(a, b) ==
    IF b.m = 0 THEN IF a.m = 0 THEN F32NaN ELSE F32Inf(a.neg # b.neg)
    ELSE IF a.m = 0 THEN F32Zero(a.neg # b.neg)
    ELSE LET s == IF a.m >= b.m THEN 24 ELSE 25
             d == LongDiv(a.m \div b.m, a.m % b.m, b.m, s)
             half == d.q \div 2
             m == IF d.q % 2 = 1 /\ (d.r # 0 \/ half % 2 = 1) THEN half + 1 ELSE half
             e == a.e - b.e - s + 1
         IN  IF m = 2^24 THEN F32Num(a.neg # b.neg, 2^23, e + 1)
             ELSE F32Num(a.neg # b.neg, m, e)

\* Review::percent_score
PercentScore(total_points, max_points) ==
    DivF32(Mul100F32(I32ToF32(total_points)), I32ToF32(max_points))

RECURSIVE DecimalDigits(_)
DecimalDigits(n) ==
    IF n < 10 THEN <<n>> ELSE Append(DecimalDigits(n \div 10), n % 10)

\* twice the number a sequence of decimal digits writes
RECURSIVE DoubleDigits(_, _)
DoubleDigits(ds, carry) ==
    IF ds = <<>> THEN IF carry = 0 THEN <<>> ELSE <<carry>>
    ELSE LET v == 2 * ds[Len(ds)] + carry
         IN  Append(DoubleDigits(SubSeq(ds, 1, Len(ds) - 1), v \div 10), v % 10)

RECURSIVE TimesTwoTo(_, _)
TimesTwoTo(ds, k) == IF k = 0 THEN ds ELSE TimesTwoTo(DoubleDigits(ds, 0), k - 1)

RECURSIVE PadLeft(_, _)
PadLeft(ds, n) == IF Len(ds) >= n THEN ds ELSE PadLeft(<<0>> \o ds, n)

\* the digits of |x| in hundredths, rounded to nearest, ties to even:
\* |x| * 100 is 25 * m * 2^(e + 2)
Hundredths(x) ==
    IF x.e + 2 >= 0 THEN TimesTwoTo(DecimalDigits(25 * x.m), x.e + 2)
    ELSE IF -(x.e + 2) >= 30 THEN <<0>>
    ELSE DecimalDigits(DivRoundEven(25 * x.m, 2^(-(x.e + 2))))

\* format!("{:.2}", x)
FormatFixed2(x) ==
    IF x.kind = "nan" THEN <<"N", "a", "N">>
    ELSE LET sign == IF x.neg THEN <<"-">> ELSE <<>>
         IN  IF x.kind = "inf" THEN sign \o <<"i", "n", "f">>
             ELSE LET ds == PadLeft(Hundredths(x), 3)
                      n == Len(ds)
                  IN  sign \o [i \in 1..(n - 2) |-> DigitChar(ds[i])]
                           \o <<".", DigitChar(ds[n - 1]), DigitChar(ds[n])>>

\* Review::percent_score_string
PercentScoreString(total_points, max_points) ==
    FormatFixed2(PercentScore(total_points, max_points)) \o <<"%">>

(***************************************************************************)
(* Review::from_csv                                                        *)
(***************************************************************************)
\* the loop labelling an option by its place among the options, not by its column
RECURSIVE OptionsLoopByPlace(_, _, _, _)
OptionsLoopByPlace(header, row, i, criterion_options) ==
    IF i > Len(row) THEN criterion_options
    ELSE IF FromStr(row[i]) = None THEN OptionsLoopByPlace(header, row, i + 1, criterion_options)
    ELSE OptionsLoopByPlace(header, row, i + 1,
                            Append(criterion_options,
                                   CriterionOptionNew(header[Len(criterion_options) + 2],
                                                      FromStr(row[i])[1])))

RECURSIVE OptionsLoop(_, _, _, _)
OptionsLoop(header, row, i, criterion_options) ==
    IF i > Len(row) THEN criterion_options
    ELSE IF FromStr(row[i]) = None THEN OptionsLoop(header, row, i + 1, criterion_options)
    ELSE OptionsLoop(header, row, i + 1,
                     Append(criterion_options, CriterionOptionNew(header[i], FromStr(row[i])[1])))

RECURSIVE RowsLoop(_, _, _, _)
RowsLoop(lines, header, n, cs) ==
    IF n > Len(lines) THEN [panic |-> FALSE, criteria |-> cs]
    ELSE LET row == Split(lines[n], CSV_COL_DELIMITER)
         IN  IF Len(row) # Len(header) THEN [panic |-> TRUE, criteria |-> <<>>]
             ELSE RowsLoop(lines, header, n + 1,
                           Append(cs, CriterionNew(row[1], OptionsLoop(header, row, 2, <<>>))))

FromCsv(text) ==
    LET lines == Split(Trim(text), CSV_ROW_DELIMITER)
    IN  IF Len(lines) = 0 THEN [panic |-> TRUE, criteria |-> <<>>]
        ELSE RowsLoop(lines, Split(lines[1], CSV_COL_DELIMITER), 2, <<>>)

(***************************************************************************)
(* Review::to_csv                                                          *)
(***************************************************************************)
\* the row with the selection and the label exchanged
CriterionRowSelectionFirst(c) ==
    <<IF Selection(c) = None THEN <<>> ELSE Selection(c)[1].label, c.label, c.comment>>

CriterionRow(c) ==
    <<c.label, IF Selection(c) = None THEN <<>> ELSE Selection(c)[1].label, c.comment>>

ToCsv(cs) ==
    LET t == TotalPoints(cs)
        m == ReviewMaxPoints(cs)
    IN  IF t.panic \/ m.panic THEN [panic |-> TRUE, text |-> <<>>]
        ELSE LET data == <<<<CRITERION_STR, SELECTION_STR, COMMENTS_STR>>,
                           <<SCORE_STR, PercentScoreString(t.value, m.value), <<>>>>>>
                             \o [k \in DOMAIN cs |-> CriterionRow(cs[k])]
                 rows == [k \in DOMAIN data |-> Join(data[k], CSV_COL_DELIMITER)]
             IN  [panic |-> FALSE, text |-> Join(rows, CSV_ROW_DELIMITER)]

(***************************************************************************)
(* The CSV specification: a review is answered, exported and imported      *)
(* again, or a CSV text is imported.                                       *)
(***************************************************************************)
MaxCsvCriteria == 2

ToCsvStep ==
    /\ pc = "review" /\ ~aborted
    /\ LET r == ToCsv(criteria)
       IN  IF r.panic
           THEN aborted' = TRUE /\ UNCHANGED <<csv, pc>>
           ELSE csv' = r.text /\ pc' = "exported" /\ aborted' = aborted
    /\ UNCHANGED <<criteria, overflow_checks, imported, grid>>

FromCsvStep ==
    /\ pc \in { "exported", "text" } /\ ~aborted
    /\ LET r == FromCsv(csv)
       IN  IF r.panic
           THEN aborted' = TRUE /\ imported' = None
           ELSE aborted' = aborted /\ imported' = Some(r.criteria)
    /\ pc' = IF pc = "exported" THEN "reimported" ELSE "parsed"
    /\ UNCHANGED <<criteria, overflow_checks, csv, grid>>

CsvLabels == { <<"Q">>, <<"a", ",">> }

CsvOptionLists ==
    { <<>>,
      <<CriterionOptionNew(YES, Points(3)), CriterionOptionNew(NO, Points(0))>>,
      <<CriterionOptionNew(<<"2">>, Points(2)), CriterionOptionNew(<<"f", "a", "t", "a", "l">>, Fatal)>> }

\* the rows of the CSV texts: the prefixes of these, up to MaxCols cells
HeaderPatterns == { <<<<"C">>, <<"A">>, <<"B">>, <<"D">>, <<"E">>>> }

RowPatterns ==
    { <<<<"Q">>, <<>>, <<"1">>, <<"f", "a", "t", "a", "l">>, <<"-", "2">>>>,
      <<<<"R">>, <<"+", "3">>, <<"F", "A", "T", "A", "L">>, <<"x">>, <<"1", ".", "5">>>>,
      <<<<" ">>, <<"0", "7", " ">>, <<"2", "1", "4", "7", "4", "8", "3", "6", "4", "8">>, <<"-">>, <<" ">>>> }

Prefixes(patterns) ==
    { SubSeq(p, 1, w) : p \in patterns, w \in 1..MaxCols }

Grids ==
    {<<>>} \cup { <<h>> \o rows : h \in Prefixes(HeaderPatterns),
                                  rows \in SeqsUpTo(Prefixes(RowPatterns), MaxRows - 1) }

Paddings == { <<>>, <<" ", "\n">> }

JoinGrid(g) == Join([k \in DOMAIN g |-> Join(g[k], CSV_COL_DELIMITER)], CSV_ROW_DELIMITER)

InitCsv ==
    /\ aborted = FALSE
    /\ overflow_checks \in BOOLEAN
    /\ imported = None
    /\ \/ /\ pc = "review"
          /\ criteria \in { ReviewNew(cs) :
                              cs \in SeqsUpTo({ CriterionNew(l, o) : l \in CsvLabels, o \in CsvOptionLists },
                                              MaxCsvCriteria) }
          /\ csv = <<>>
          /\ grid = <<>>
       \/ /\ pc = "text"
          /\ criteria = ReviewNew(<<>>)
          /\ grid \in Grids
          /\ csv \in { lead \o JoinGrid(grid) \o trail : lead \in Paddings, trail \in Paddings }

NextCsv == SetSelection \/ SetCommentAny \/ ToCsvStep \/ FromCsvStep

SpecCsv == InitCsv /\ [][NextCsv]_vars

(***************************************************************************)
(* A single criterion over every short option list: the specification      *)
(* under which Criterion::max_points is checked.                           *)
(***************************************************************************)
MaxOptions == 3

Scores == { Fatal, Points(I32Min), Points(-1), Points(0), Points(2), Points(I32Max) }

InitCriterion ==
    /\ criteria \in { ReviewNew(<<CriterionNew(CriterionLabel, o)>>) :
                        o \in SeqsUpTo({ CriterionOptionNew(YES, s) : s \in Scores }, MaxOptions) }
    /\ aborted = FALSE
    /\ overflow_checks \in BOOLEAN
    /\ pc = "review"
    /\ csv = <<>>
    /\ imported = None
    /\ grid = <<>>

SpecCriterion == InitCriterion /\ [][Next]_vars

(***************************************************************************)
(* Integers wider than i32, to state sums the code cannot hold: the pair   *)
(* [q, r] stands for q * 2^31 + r with 0 <= r < 2^31.                      *)
(***************************************************************************)
Wide(n) == IF n >= 0 THEN [q |-> 0, r |-> n] ELSE [q |-> -1, r |-> (n + I32Max) + 1]

WideAdd(a, b) ==
    IF a.r > I32Max - b.r
    THEN [q |-> a.q + b.q + 1, r |-> (a.r - I32Max - 1) + b.r]
    ELSE [q |-> a.q + b.q, r |-> a.r + b.r]

RECURSIVE WideSum(_)
WideSum(ns) == IF ns = <<>> THEN Wide(0) ELSE WideAdd(Wide(Head(ns)), WideSum(Tail(ns)))

Answered(c) == c.selection_index # None

\* the points a criterion's current selection carries; 0 when it carries none
SelectedPoints(c) ==
    IF Answered(c) /\ c.options[c.selection_index[1] + 1].score.tag = "Points"
    THEN c.options[c.selection_index[1] + 1].score.points
    ELSE 0

FatalSelected(c) ==
    Answered(c) /\ c.options[c.selection_index[1] + 1].score.tag = "Fatal"

\* max(0, the largest p with Points(p) among the options)
LargestPoints(options) ==
    LET ps == {0} \cup { options[i].score.points :
                            i \in { j \in DOMAIN options : options[j].score.tag = "Points" } }
    IN  CHOOSE m \in ps : \A p \in ps : m >= p

(***************************************************************************)
(* C1: whenever some criterion's current selection is a Fatal option,      *)
(* total_points() returns 0, wherever that criterion stands in the list    *)
(* and whatever Points the other selections carry.                         *)
(***************************************************************************)
C1_FatalGivesZero ==
    (\E k \in DOMAIN criteria : FatalSelected(criteria[k]))
        => (~TotalPoints(criteria).panic /\ TotalPoints(criteria).value = 0)

(***************************************************************************)
(* C2: when no criterion's current selection is Fatal, total_points()      *)
(* returns the sum of the Points of the selected options, an unanswered    *)
(* criterion counting 0.                                                   *)
(***************************************************************************)
C2_TotalIsSum ==
    (\A k \in DOMAIN criteria : ~FatalSelected(criteria[k]))
        => /\ ~TotalPoints(criteria).panic
           /\ Wide(TotalPoints(criteria).value)
                = WideSum([k \in DOMAIN criteria |-> SelectedPoints(criteria[k])])

(***************************************************************************)
(* C3: a criterion's max_points() is max(0, the largest Points value among *)
(* its options): Fatal options do not count, and it is 0 for an empty, an  *)
(* all-Fatal or an all-negative option list.                               *)
(***************************************************************************)
C3_CriterionMaxPoints ==
    \A k \in DOMAIN criteria :
        CriterionMaxPoints(criteria[k]) = LargestPoints(criteria[k].options)

C3_Witness ==
    /\ \E k \in DOMAIN criteria :
          /\ Len(criteria[k].options) = 3
          /\ criteria[k].options[1].score = Fatal
          /\ criteria[k].options[2].score = Points(2)
          /\ criteria[k].options[3].score = Points(-1)
          /\ CriterionMaxPoints(criteria[k]) = 2
          /\ Answered(criteria[k])

(***************************************************************************)
(* C4: a review's max_points() returns the sum of its criteria's           *)
(* max_points().                                                           *)
(***************************************************************************)
C4_ReviewMaxIsSum ==
    /\ ~ReviewMaxPoints(criteria).panic
    /\ Wide(ReviewMaxPoints(criteria).value)
         = WideSum([k \in DOMAIN criteria |-> CriterionMaxPoints(criteria[k])])

\* the part of C4 about selections: no step changes what max_points() gives
C4_SelectionIndependent ==
    [][ReviewMaxPoints(criteria') = ReviewMaxPoints(criteria)]_vars


(***************************************************************************)
(* C8: a criterion's selection is absent or an index below the number of   *)
(* its options, so selection() resolves whenever a selection is stored; a  *)
(* set_selection_index call with an index out of range aborts and stores   *)
(* nothing, and a criterion without options is never answered.             *)
(***************************************************************************)
SelectionValid ==
    \A k \in DOMAIN criteria :
        Answered(criteria[k])
            => /\ criteria[k].selection_index[1] >= 0
               /\ criteria[k].selection_index[1] < Len(criteria[k].options)
               /\ Selection(criteria[k]) # None

AbortStoresNothing == (aborted' /\ ~aborted) => criteria' = criteria

C8_SelectionInRange == []SelectionValid /\ [][AbortStoresNothing]_vars

C8_Witness ==
    /\ aborted
    /\ \E k \in DOMAIN criteria : Answered(criteria[k])
    /\ \E k \in DOMAIN criteria : criteria[k].options = <<>> /\ ~Answered(criteria[k])

(***************************************************************************)
(* C9: a criterion starts unanswered, a step that changes its selection    *)
(* leaves it answered with an index in range, and no step takes an         *)
(* answered criterion back to unanswered.                                  *)
(***************************************************************************)
StaysAnswered ==
    /\ DOMAIN criteria' = DOMAIN criteria
    /\ \A k \in DOMAIN criteria :
          /\ Answered(criteria[k]) => Answered(criteria'[k])
          /\ criteria'[k].selection_index # criteria[k].selection_index
                => /\ Answered(criteria'[k])
                   /\ criteria'[k].selection_index[1] < Len(criteria[k].options)

C9_AnsweredStaysAnswered ==
    (\A k \in DOMAIN criteria : ~Answered(criteria[k])) /\ [][StaysAnswered]_vars

C9_Witness ==
    \E k \in DOMAIN criteria :
        /\ criteria[k].selection_index = Some(1)
        /\ criteria[k].comment # <<>>

(***************************************************************************)
(* C10: as long as no addition leaves the i32 range, total_points() is at  *)
(* most max_points() and max_points() is not negative, so percent_score()  *)
(* is at most 100 when max_points() is positive.                           *)
(***************************************************************************)
Hundred == F32Num(FALSE, 100 * 2^17, -17)
AboveHundred == F32Num(FALSE, 100 * 2^17 + 1, -17)

\* x <= y for a finite x and a positive finite y
F32AtMost(x, y) ==
    /\ x.kind = "num"
    /\ (x.neg \/ x.m = 0 \/ x.e < y.e \/ (x.e = y.e /\ x.m <= y.m))

C10_PercentAtMost100 ==
    LET t == TotalPoints(criteria)
        m == ReviewMaxPoints(criteria)
    IN  (~t.wrapped /\ ~m.wrapped)
            => /\ t.value <= m.value
               /\ m.value >= 0
               /\ m.value > 0 => F32AtMost(PercentScore(t.value, m.value), Hundred)

(***************************************************************************)
(* C10, amended: as long as no addition leaves the i32 range,              *)
(* total_points() is at most max_points() and max_points() is not          *)
(* negative; percent_score() is then at most the f32 next above 100, which *)
(* f32 rounding reaches, and is printed as at most 100.00%.                *)
(***************************************************************************)
C10_TotalAtMostMax ==
    LET t == TotalPoints(criteria)
        m == ReviewMaxPoints(criteria)
    IN  (~t.wrapped /\ ~m.wrapped)
            => /\ t.value <= m.value
               /\ m.value >= 0
               /\ m.value > 0 => F32AtMost(PercentScore(t.value, m.value), AboveHundred)

C10_Witness ==
    LET t == TotalPoints(criteria)
        m == ReviewMaxPoints(criteria)
    IN  /\ ~t.wrapped /\ ~m.wrapped
        /\ t.value = m.value /\ m.value > 0
        /\ PercentScore(t.value, m.value) = AboveHundred
        /\ PercentScoreString(t.value, m.value) = <<"1", "0", "0", ".", "0", "0", "%">>

(***************************************************************************)
(* C5: exporting a review without comments, whose labels hold no comma and *)
(* no line feed, and importing the text again gives a review with the same *)
(* set of criterion labels and the same max_points().                      *)
(***************************************************************************)
Plain(s) == \A i \in DOMAIN s : s[i] \notin { CSV_COL_DELIMITER, CSV_ROW_DELIMITER }

RoundTripInput ==
    \A k \in DOMAIN criteria :
        /\ criteria[k].comment = <<>>
        /\ Plain(criteria[k].label)
        /\ \A i \in DOMAIN criteria[k].options : Plain(criteria[k].options[i].label)

LabelSet(cs) == { cs[k].label : k \in DOMAIN cs }

C5_RoundTrip ==
    (pc = "reimported" /\ RoundTripInput)
        => /\ ~aborted
           /\ LabelSet(imported[1]) = LabelSet(criteria)
           /\ ReviewMaxPoints(imported[1]) = ReviewMaxPoints(criteria)

\* what from_csv makes of an exported criterion row: the label, and one option
\* named after the Selection column when the selected option's label is a score
Reimported(c) ==
    CriterionNew(c.label,
                 IF Selection(c) # None /\ FromStr(Selection(c)[1].label) # None
                 THEN <<CriterionOptionNew(SELECTION_STR, FromStr(Selection(c)[1].label)[1])>>
                 ELSE <<>>)

(***************************************************************************)
(* C5, amended: for such a review, importing the exported text gives one   *)
(* unanswered criterion "Percent Score" without options, followed by one   *)
(* unanswered criterion per criterion of the review, in order and under    *)
(* the same label, whose only possible option is the selected option's     *)
(* label read as a score; the option lists are not reproduced.             *)
(***************************************************************************)
C5_Reimport ==
    (pc = "reimported" /\ RoundTripInput)
        => /\ ~aborted
           /\ imported = Some(<<CriterionNew(SCORE_STR, <<>>)>>
                                 \o [k \in DOMAIN criteria |-> Reimported(criteria[k])])

C5_Witness ==
    /\ pc = "reimported" /\ RoundTripInput /\ ~aborted
    /\ Len(criteria) = 2
    /\ \E k \in DOMAIN criteria : Answered(criteria[k]) /\ Reimported(criteria[k]).options # <<>>
    /\ \E k \in DOMAIN criteria : Answered(criteria[k]) /\ Reimported(criteria[k]).options = <<>>
    /\ ReviewMaxPoints(imported[1]) # ReviewMaxPoints(criteria)

(***************************************************************************)
(* C6: from_csv aborts when the text is empty or all whitespace.           *)
(***************************************************************************)
C6_EmptyInputFails ==
    (pc = "parsed" /\ \A i \in DOMAIN csv : csv[i] \in WhiteSpace) => aborted

(***************************************************************************)
(* C7: for a text whose rows, once the text is trimmed, all have as many   *)
(* columns as the header, from_csv returns one unanswered, uncommented     *)
(* criterion per data row, in row order and labelled by column 0, whose    *)
(* options are the cells of the later columns that parse as a score, in    *)
(* column order, each under its column's header cell; a cell that does not *)
(* parse gives no option and no failure.                                   *)
(***************************************************************************)
\* the trimmed text is the grid itself: nothing of it is whitespace at an end
Clean(g) ==
    /\ Len(g) >= 1
    /\ \A k \in DOMAIN g : \A i \in DOMAIN g[k] : Plain(g[k][i])
    /\ LET t == JoinGrid(g)
       IN  t = <<>> \/ (t[1] \notin WhiteSpace /\ t[Len(t)] \notin WhiteSpace)

Rectangular(g) == \A k \in DOMAIN g : Len(g[k]) = Len(g[1])

ParsingColumns(row) == { i \in 2..Len(row) : FromStr(row[i]) # None }

NthColumn(cols, j) == CHOOSE i \in cols : Cardinality({ x \in cols : x < i }) = j - 1

ExpectedOptions(header, row) ==
    [j \in 1..Cardinality(ParsingColumns(row)) |->
        LET i == NthColumn(ParsingColumns(row), j)
        IN  [label |-> header[i], score |-> FromStr(row[i])[1]]]

ExpectedReview(g) ==
    [k \in 1..(Len(g) - 1) |->
        [label |-> g[k + 1][1], options |-> ExpectedOptions(g[1], g[k + 1]),
         selection_index |-> None, comment |-> <<>>]]

C7_FromCsvBuildsReview ==
    (pc = "parsed" /\ Clean(grid) /\ Rectangular(grid))
        => (~aborted /\ imported = Some(ExpectedReview(grid)))

C7_Witness ==
    /\ pc = "parsed" /\ Clean(grid) /\ Rectangular(grid) /\ ~aborted
    /\ csv # JoinGrid(grid)
    /\ Len(grid) = 3 /\ Len(grid[1]) = 3
    /\ Len(imported[1]) = 2
    /\ Len(imported[1][1].options) = 1 /\ imported[1][1].options[1].label = grid[1][3]
    /\ Len(imported[1][2].options) = 2

====
